---- MODULE Spec2Model ----
(***************************************************************************)
(* Model of studentnumber_easypeasy_web.py: the session state              *)
(* (st.session_state.rates, .high_school_rates, .calculated_results), the  *)
(* Excel import (process_excel), the estimate (calculate_student_counts),  *)
(* the deletion of accumulated results and the export view (rate_data).    *)
(*                                                                         *)
(* Text is modelled as a sequence of one-character strings so that         *)
(* f"{city} {r}", str.split(" ") and str.startswith are computed as the    *)
(* code computes them.  Column names and the three lower key levels are    *)
(* atomic strings (the code only compares them).                           *)
(*                                                                         *)
(* Numbers: a spreadsheet cell holds a decimal given in thousandths, a     *)
(* stored rate (after round(x, 2)) is held in hundredths.  The cell values *)
(* enumerated below are exactly representable as binary floats wherever a  *)
(* rounding tie occurs, so the decimal arithmetic here and Python's float  *)
(* arithmetic agree on them.                                               *)
(***************************************************************************)
EXTENDS Integers, Sequences, FiniteSets, TLC

VARIABLES rates, high_school_rates, calculated_results, message

vars == <<rates, high_school_rates, calculated_results, message>>

---------------------------------------------------------------------------
(* Bounds of the model *)

\* longest table (number of data rows) an import is given
MaxRows == 2
\* cap on the length of calculated_results
MaxResults == 1
\* cap on the length of calculated_results in the ledger specification
MaxLedger == 5
\* largest unit count used in the ledger specification
MaxLedgerUnits == 2

---------------------------------------------------------------------------
(* Text *)

SP == " "

\* f"{a} {b}"
Join(a, b) == a \o <<SP>> \o b

\* " " in s
HasSpace(s) == \E i \in 1..Len(s) : s[i] = SP

RECURSIVE SplitFrom(_, _, _)
SplitFrom(s, i, cur) ==
  IF i > Len(s) THEN <<cur>>
  ELSE IF s[i] = SP THEN <<cur>> \o SplitFrom(s, i + 1, <<>>)
  ELSE SplitFrom(s, i + 1, Append(cur, s[i]))

\* s.split(" "): one field per separator, empty fields kept
Split(s) == SplitFrom(s, 1, <<>>)

\* r.startswith(c)
StartsWith(r, c) == Len(c) <= Len(r) /\ SubSeq(r, 1, Len(c)) = c

\* truthiness of a text value (the empty text is falsy)
Truthy(s) == s # <<>>

\* truthiness of an atomic string
TruthyAtom(a) == a # ""

---------------------------------------------------------------------------
(* Numbers *)

\* round half up of n/d: what round() is often taken to do
RoundHalfUp(n, d) == (2 * n + d) \div (2 * d)

\* Python's round(): n/d (d > 0) to the nearest integer, a tie to the even one
RoundHalfEven(n, d) ==
  LET q == n \div d
      r == n % d
  IN  IF 2 * r < d THEN q
      ELSE IF 2 * r > d THEN q + 1
      ELSE IF q % 2 = 0 THEN q ELSE q + 1

\* values: a number (v in the unit the context fixes) or NaN
Num(v) == [kind |-> "num", v |-> v]
NaN == [kind |-> "nan", v |-> 0]
\* cells that are no number: a blank text "" and a non-numeric text
EmptyText == [kind |-> "empty", v |-> 0]
BadText == [kind |-> "text", v |-> 0]

\* float(cell) raises ValueError on "" and on non-numeric text
FloatRaises(cell) == cell.kind \in {"empty", "text"}

\* round(float(cell), 2): thousandths to hundredths; NaN stays NaN
Round2(cell) ==
  IF cell.kind = "nan" THEN NaN ELSE Num(RoundHalfEven(cell.v, 10))

\* pd.notna(cell) and cell != ""
NotBlank(cell) == cell.kind # "nan" /\ cell.kind # "empty"

---------------------------------------------------------------------------
(* Nested dictionaries: region -> housing type -> supply type -> scale *)

EmptyDict == <<>>

\* d[k] = v
Put(d, k, v) == [x \in DOMAIN d \cup {k} |-> IF x = k THEN v ELSE d[x]]

\* the dictionary after d.setdefault(k, {})
SetDefault(d, k) == IF k \in DOMAIN d THEN d ELSE Put(d, k, EmptyDict)

\* d.get(k, {})
Get(d, k) == IF k \in DOMAIN d THEN d[k] ELSE EmptyDict

\* get_node(data, [region, housing_type, subtype, scale], {})
get_node(data, r, h, s, sc) ==
  IF /\ r \in DOMAIN data
     /\ h \in DOMAIN data[r]
     /\ s \in DOMAIN data[r][h]
     /\ sc \in DOMAIN data[r][h][s]
  THEN data[r][h][s][sc]
  ELSE EmptyDict

\* new.setdefault(r, {}); new[r].setdefault(h, {}); new[r][h].setdefault(s, {})[sc] = v
Upsert(d, r, h, s, sc, v) ==
  LET d1 == SetDefault(d, r)
      t1 == SetDefault(d1[r], h)
      s1 == SetDefault(t1[h], s)
  IN  Put(d1, r, Put(t1, h, Put(s1, s, Put(s1[s], sc, v))))

\* the paths (region, housing type, supply type, scale) that hold a leaf
Leaves(d) ==
  UNION { UNION { UNION { { <<r, h, s, sc>> : sc \in DOMAIN d[r][h][s] }
                          : s \in DOMAIN d[r][h] }
                  : h \in DOMAIN d[r] }
          : r \in DOMAIN d }

---------------------------------------------------------------------------
(* Cascading selection *)

get_cities == { Split(region)[1] : region \in DOMAIN rates }

get_regions(city) == { r \in DOMAIN rates : StartsWith(r, city) }

get_types(region) == DOMAIN Get(rates, region)

get_subtypes(region, housing_type) == DOMAIN Get(Get(rates, region), housing_type)

get_scales(region, housing_type, subtype) ==
  DOMAIN Get(Get(Get(rates, region), housing_type), subtype)

---------------------------------------------------------------------------
(* Messages shown to the caller (tab.error / tab.warning / tab.success).   *)
(* text identifies the literal; cols is the set of column names the text   *)
(* names; n is the number the text carries.                                *)

Msg(level, text, cols, n) == [level |-> level, text |-> text, cols |-> cols, n |-> n]

MsgNone == Msg("none", "", {}, 0)
MsgSelectAll == Msg("error", "select every item", {}, 0)
MsgUnits == Msg("warning", "units must be 1 or more", {}, 0)
MsgNoRate == Msg("warning", "no yield rate for the combination", {}, 0)
MsgNoHigh == Msg("warning", "no high-school rate for the combination", {}, 0)
MsgCalcOk == Msg("success", "expected students", {}, 0)
MsgCalcRaised == Msg("exception", "cannot convert float NaN to integer", {}, 0)
MsgExcelFail == Msg("error", "excel processing failed", {}, 0)
MsgImportOk(n) == Msg("success", "combinations saved", {}, n)
MsgDeleted == Msg("success", "selected results deleted", {}, 0)

---------------------------------------------------------------------------
(* Excel import *)

KeyCols == {"city", "region", "housing_type", "supply_type", "scale"}
RateCols == {"elementary", "middle"}
HighCols == {"high_personnel", "high_rate"}

\* the columns only the rate table needs
SevenCols == KeyCols \cup RateCols

required_cols == KeyCols \cup RateCols \cup HighCols

\* the columns the error text lists: all nine, whatever the table lacks
MessageCols == KeyCols \cup RateCols \cup HighCols

\* the error text names the columns that are missing from the table
MissingColsNamed(file) == Msg("error", "required columns missing", required_cols \ file.columns, 0)

\* tab.error("... required columns (city, ..., high_rate) are missing")
MissingColsMessage(file) == Msg("error", "required columns missing", MessageCols, 0)

\* row.get(col): None (a blank) when the row has no such column
RowGet(row, col) == IF col \in DOMAIN row THEN row[col] ELSE NaN

\* the accumulators start from the session's tables: a merge
MergedTables == [ok |-> TRUE, rates |-> rates, high |-> high_school_rates]

\* new_rates = {}; new_high_school_rates = {}
NewTables == [ok |-> TRUE, rates |-> EmptyDict, high |-> EmptyDict]

\* one pass of the loop body over a row; ok = FALSE when float() raises
ProcessRow(acc, row) ==
  LET full_region == Join(row["city"], row["region"])
      h == row["housing_type"]
      s == row["supply_type"]
      sc == row["scale"]
      hp == RowGet(row, "high_personnel")
      hr == RowGet(row, "high_rate")
  IN  IF FloatRaises(row["elementary"]) \/ FloatRaises(row["middle"])
      THEN [acc EXCEPT !.ok = FALSE]
      ELSE LET nr == Upsert(acc.rates, full_region, h, s, sc,
                            [elem |-> Round2(row["elementary"]),
                             mid |-> Round2(row["middle"])])
           IN  IF NotBlank(hp) /\ NotBlank(hr)
               THEN IF FloatRaises(hp) \/ FloatRaises(hr)
                    THEN [acc EXCEPT !.ok = FALSE, !.rates = nr]
                    ELSE [acc EXCEPT !.rates = nr,
                                     !.high = Upsert(acc.high, full_region, h, s, sc,
                                                     [personnel |-> Round2(hp),
                                                      rate |-> Round2(hr)])]
               ELSE [acc EXCEPT !.rates = nr]

RECURSIVE BuildTables(_, _, _)
\* for _, row in df.iterrows(): the loop stops at the first row that raises
BuildTables(rows, i, acc) ==
  IF i > Len(rows) \/ ~acc.ok THEN acc
  ELSE BuildTables(rows, i + 1, ProcessRow(acc, rows[i]))

\* the tables are assigned while the loop runs, so a failure leaves them half built
CommittedEarly(built) == <<built.rates, built.high>>

\* the session's tables after the loop: assigned only once every row was processed
Committed(built) ==
  IF built.ok THEN <<built.rates, built.high>> ELSE <<rates, high_school_rates>>

\* the session after process_excel(file)
ExcelOutcome(file) ==
  LET same == [rates |-> rates, high_school_rates |-> high_school_rates,
               calculated_results |-> calculated_results, message |-> message]
  IN  IF ~file.readable
      THEN [same EXCEPT !.message = MsgExcelFail]
      ELSE IF ~(required_cols \subseteq file.columns)
      THEN [same EXCEPT !.message = MissingColsMessage(file)]
      ELSE LET built == BuildTables(file.rows, 1, NewTables)
           IN  [same EXCEPT !.rates = Committed(built)[1],
                            !.high_school_rates = Committed(built)[2],
                            !.message = IF built.ok THEN MsgImportOk(Len(file.rows))
                                        ELSE MsgExcelFail]

process_excel(file) ==
  /\ rates' = ExcelOutcome(file).rates
  /\ high_school_rates' = ExcelOutcome(file).high_school_rates
  /\ calculated_results' = ExcelOutcome(file).calculated_results
  /\ message' = ExcelOutcome(file).message

---------------------------------------------------------------------------
(* Estimate *)

\* the row appended to calculated_results
Result(city, region, housing_type, subtype, scale, units, k, e, m, h) ==
  [city |-> city, region |-> region, housing_type |-> housing_type,
   supply_type |-> subtype, scale |-> scale, units |-> units,
   kindergarten |-> k, elementary |-> e, middle |-> m, high |-> h]

\* the city is left out of the check
SelectionIncompleteNoCity(city, region, housing_type, subtype, scale) ==
  ~(/\ Truthy(region)
    /\ TruthyAtom(housing_type) /\ TruthyAtom(subtype) /\ TruthyAtom(scale))

\* if not all([city, region, housing_type, subtype, scale])
SelectionIncomplete(city, region, housing_type, subtype, scale) ==
  ~(/\ Truthy(city) /\ Truthy(region)
    /\ TruthyAtom(housing_type) /\ TruthyAtom(subtype) /\ TruthyAtom(scale))

\* the unit check accepts zero
UnitsBelowZero(units) == units < 0

\* if units <= 0
UnitsInvalid(units) == units <= 0

\* round(units * rate / 100) raises ValueError on a NaN rate; rates are in hundredths
RatesRaise(data, high_school_data) ==
  \/ data.elem.kind = "nan" \/ data.mid.kind = "nan"
  \/ high_school_data.personnel.kind = "nan" \/ high_school_data.rate.kind = "nan"

\* e = round(units * e_rate / 100)
ElementaryCount(units, data) == RoundHalfEven(units * data.elem.v, 10000)

\* k = round(e * 0.5), e the rounded elementary count
KindergartenCount(units, data) == RoundHalfEven(ElementaryCount(units, data), 2)

\* m = round(units * m_rate / 100)
MiddleCount(units, data) == RoundHalfEven(units * data.mid.v, 10000)

\* h = round(units * high_school_personnel * high_school_rate / 100)
HighCount(units, high_school_data) ==
  RoundHalfEven(units * high_school_data.personnel.v * high_school_data.rate.v, 1000000)

\* the rate lookup is made before the unit check
RejectionLookupFirst(city, region, housing_type, subtype, scale, units, data, high_school_data) ==
  IF SelectionIncomplete(city, region, housing_type, subtype, scale) THEN MsgSelectAll
  ELSE IF data = EmptyDict THEN MsgNoRate
  ELSE IF UnitsInvalid(units) THEN MsgUnits
  ELSE IF high_school_data = EmptyDict THEN MsgNoHigh
  ELSE MsgNone

\* the four early returns, in the order of the code; MsgNone when none is taken
Rejection(city, region, housing_type, subtype, scale, units, data, high_school_data) ==
  IF SelectionIncomplete(city, region, housing_type, subtype, scale) THEN MsgSelectAll
  ELSE IF UnitsInvalid(units) THEN MsgUnits
  ELSE IF data = EmptyDict THEN MsgNoRate
  ELSE IF high_school_data = EmptyDict THEN MsgNoHigh
  ELSE MsgNone

\* the session after calculate_student_counts(...)
CalcOutcome(city, region, housing_type, subtype, scale, units) ==
  LET same == [rates |-> rates, high_school_rates |-> high_school_rates,
               calculated_results |-> calculated_results, message |-> message]
      data == get_node(rates, region, housing_type, subtype, scale)
      high_school_data == get_node(high_school_rates, region, housing_type, subtype, scale)
      rejection == Rejection(city, region, housing_type, subtype, scale, units,
                             data, high_school_data)
  IN  IF rejection # MsgNone
      THEN [same EXCEPT !.message = rejection]
      ELSE IF RatesRaise(data, high_school_data)
      THEN [same EXCEPT !.message = MsgCalcRaised]
      ELSE [same EXCEPT
              !.message = MsgCalcOk,
              !.calculated_results =
                 Append(calculated_results,
                        Result(city, region, housing_type, subtype, scale, units,
                               KindergartenCount(units, data),
                               ElementaryCount(units, data),
                               MiddleCount(units, data),
                               HighCount(units, high_school_data)))]

calculate_student_counts(city, region, housing_type, subtype, scale, units) ==
  LET out == CalcOutcome(city, region, housing_type, subtype, scale, units)
  IN  /\ rates' = out.rates
      /\ high_school_rates' = out.high_school_rates
      /\ calculated_results' = out.calculated_results
      /\ message' = out.message

---------------------------------------------------------------------------
(* Deleting accumulated results *)

DigitChars == <<"0", "1", "2", "3", "4", "5", "6", "7", "8", "9">>

RECURSIVE Digits(_)
Digits(n) == IF n < 10 THEN <<DigitChars[n + 1]>>
             ELSE Digits(n \div 10) \o <<DigitChars[(n % 10) + 1]>>

\* three digits, zero padded
Pad3(n) == <<DigitChars[(n \div 100) + 1], DigitChars[((n \div 10) % 10) + 1],
             DigitChars[(n % 10) + 1]>>

RECURSIVE format_number(_)
\* f"{int(number):,}"
format_number(n) == IF n < 1000 THEN Digits(n)
                    ELSE format_number(n \div 1000) \o <<",">> \o Pad3(n % 1000)

DigitValue(c) == CHOOSE d \in 0..9 : DigitChars[d + 1] = c

RECURSIVE ParseInt(_, _)
\* int(text.replace(",", "")), read left to right
ParseInt(text, acc) ==
  IF text = <<>> THEN acc
  ELSE IF Head(text) = "," THEN ParseInt(Tail(text), acc)
  ELSE ParseInt(Tail(text), 10 * acc + DigitValue(Head(text)))

\* f"{format_number(i+1)} th row", i the 0-based position
Option(i) == format_number(i + 1) \o <<SP, "t", "h", SP, "r", "o", "w">>

\* options = [... for i in range(len(calculated_results))]
Options == { Option(i) : i \in 0..(Len(calculated_results) - 1) }

\* the label's number taken as the position itself
OriginalIndexOneBased(option) == ParseInt(Split(option)[1], 0)

\* int(option.split()[0].replace(",", "")) - 1
OriginalIndex(option) == ParseInt(Split(option)[1], 0) - 1

RECURSIVE KeepFrom(_, _, _)
\* [result for i, result in enumerate(results) if i not in original_indices]
KeepFrom(results, i, original_indices) ==
  IF i >= Len(results) THEN <<>>
  ELSE (IF i \in original_indices THEN <<>> ELSE <<results[i + 1]>>)
       \o KeepFrom(results, i + 1, original_indices)

\* the session after the delete button is pressed with selected_indices chosen
DeleteOutcome(selected_indices) ==
  LET original_indices == { OriginalIndex(o) : o \in selected_indices }
  IN  [rates |-> rates, high_school_rates |-> high_school_rates,
       calculated_results |-> KeepFrom(calculated_results, 0, original_indices),
       message |-> MsgDeleted]

\* the multiselect and the button are shown only while results exist
delete_selected(selected_indices) ==
  /\ calculated_results # <<>>
  /\ rates' = DeleteOutcome(selected_indices).rates
  /\ high_school_rates' = DeleteOutcome(selected_indices).high_school_rates
  /\ calculated_results' = DeleteOutcome(selected_indices).calculated_results
  /\ message' = DeleteOutcome(selected_indices).message

---------------------------------------------------------------------------
(* Export view *)

RECURSIVE WithoutChar(_, _)
WithoutChar(text, c) ==
  IF text = <<>> THEN <<>>
  ELSE (IF Head(text) = c THEN <<>> ELSE <<Head(text)>>) \o WithoutChar(Tail(text), c)

\* f"{number:.2f}" of a stored value (hundredths, not negative); "nan" for NaN
format_percentage(value) ==
  IF value.kind = "nan" THEN <<"n", "a", "n">>
  ELSE Digits(value.v \div 100) \o <<".">>
       \o <<DigitChars[((value.v \div 10) % 10) + 1], DigitChars[(value.v % 10) + 1]>>

ZeroText == <<"0", ".", "0", "0">>

\* the row of rate_data built from the leaf v at (r, t, s, sc)
ExportRow(r, t, s, sc, v, high) ==
  LET hv == get_node(high, r, t, s, sc)
  IN  [city |-> IF HasSpace(r) THEN Split(r)[1] ELSE r,
       region |-> IF HasSpace(r) THEN Split(r)[2] ELSE r,
       housing_type |-> t, supply_type |-> s, scale |-> sc,
       elementary |-> format_percentage(v.elem),
       middle |-> format_percentage(v.mid),
       high_personnel |-> IF hv # EmptyDict THEN format_percentage(hv.personnel) ELSE ZeroText,
       high_rate |-> IF hv # EmptyDict THEN format_percentage(hv.rate) ELSE ZeroText]

\* rate_data: one row for each leaf of the rate table, here indexed by the leaf
RateData(table, high) ==
  [p \in Leaves(table) |-> ExportRow(p[1], p[2], p[3], p[4], table[p[1]][p[2]][p[3]][p[4]], high)]

rate_data == RateData(rates, high_school_rates)

---------------------------------------------------------------------------
(* Inputs *)

S == <<"S">>
SJ == <<"S", SP, "J">>
G == <<"G">>

Cities == {S, SJ}
Districts == {G}
HousingTypes == {"APT"}
SupplyTypes == {"SALE"}
Scales == {"84"}

Row(c, d, h, s, sc, rc) ==
  [city |-> c, region |-> d, housing_type |-> h, supply_type |-> s, scale |-> sc,
   elementary |-> rc[1], middle |-> rc[2], high_personnel |-> rc[3], high_rate |-> rc[4]]

\* the rate cells of a row: elementary, middle, high_personnel, high_rate
FullCells == <<Num(12500), Num(6000), Num(800), Num(15000)>>  \* 12.5, 6.0, 0.8, 15.0
BlankHighCells == <<Num(3125), Num(6004), NaN, NaN>>          \* 3.125, 6.004, both blank

\* a high-school rate of "", a blank elementary rate (stored as NaN), and an
\* elementary rate on which float() raises
OddCells ==
  { <<Num(12500), Num(6000), Num(800), EmptyText>>,
    <<NaN, Num(6000), Num(800), Num(15000)>>,
    <<BadText, Num(6000), Num(800), Num(15000)>> }

\* the rows of a list: either kind of cells under the one-word city, the cells
\* without high-school fields under the two-word city
Rows ==
  { Row(c[1], d, h, s, sc, c[2]) :
    c \in {<<S, FullCells>>, <<S, BlankHighCells>>, <<SJ, BlankHighCells>>},
    d \in Districts, h \in HousingTypes, s \in SupplyTypes, sc \in Scales }

\* rows that close a table (the loop reads nothing after a row that raises)
LastRows ==
  { Row(S, d, h, s, sc, rc) :
    d \in Districts, h \in HousingTypes, s \in SupplyTypes, sc \in Scales, rc \in OddCells }

\* the sequences over rowSet of length at most n
RowSeqs(rowSet, n) == UNION { [1..k -> rowSet] : k \in 0..n }

\* a row cut down to the columns of its table
Project(row, cols) == [c \in cols |-> row[c]]

\* the columns of the exported list, which the user fills in and uploads
AllCols == KeyCols \cup RateCols \cup HighCols

\* headers that lack columns
BadHeaders == { AllCols \ {"middle"}, AllCols \ {"city", "elementary"}, AllCols \ HighCols }

CorruptFile == [readable |-> FALSE, columns |-> {}, rows |-> <<>>]

File(cols, rows) ==
  [readable |-> TRUE, columns |-> cols, rows |-> [i \in DOMAIN rows |-> Project(rows[i], cols)]]

Files ==
  { File(AllCols, rs) : rs \in RowSeqs(Rows, MaxRows) }
    \cup { File(AllCols, Append(rs, r)) : rs \in RowSeqs(Rows, MaxRows - 1), r \in LastRows }
    \cup { File(cols, rs) : cols \in BadHeaders, rs \in RowSeqs(Rows, 1) }
    \cup { CorruptFile }

\* the arguments of an estimate: city, region, housing_type, subtype, scale, units
CalcArgs ==
  {<<>>, S} \X ({<<>>} \cup { Join(c, d) : c \in Cities, d \in Districts })
    \X ({""} \cup HousingTypes) \X ({""} \cup SupplyTypes) \X ({""} \cup Scales)
    \X {-1, 0, 100}

\* the estimates of the ledger specification: one configured path, units 1..MaxLedgerUnits
LedgerArgs ==
  {S} \X {Join(S, d) : d \in Districts} \X HousingTypes \X SupplyTypes \X Scales
    \X (1..MaxLedgerUnits)

---------------------------------------------------------------------------
(* The session *)

\* load_json: {} when the file is absent or unreadable, else its content
PersistedRow == CHOOSE r \in Rows : r.city = S /\ r.high_rate = Num(15000)

\* the two JSON files as written from one row of the list
PersistedBuilt ==
  BuildTables(<<PersistedRow>>, 1, [ok |-> TRUE, rates |-> EmptyDict, high |-> EmptyDict])

PersistedTables ==
  [rates |-> {EmptyDict, PersistedBuilt.rates}, high |-> {EmptyDict, PersistedBuilt.high}]

Init ==
  /\ rates \in PersistedTables.rates
  /\ high_school_rates \in PersistedTables.high
  /\ calculated_results = <<>>
  /\ message = MsgNone

ImportStep == \E file \in Files : process_excel(file)

CalculateStep ==
  \E a \in CalcArgs :
    /\ calculate_student_counts(a[1], a[2], a[3], a[4], a[5], a[6])
    /\ Len(calculated_results') <= MaxResults

DeleteStep == \E selected_indices \in SUBSET Options : delete_selected(selected_indices)

Next == ImportStep \/ CalculateStep \/ DeleteStep

Spec == Init /\ [][Next]_vars

---------------------------------------------------------------------------
(* The result ledger alone: the tables are those of one imported row, the   *)
(* estimates differ in their unit count.                                   *)

InitLedger ==
  /\ rates = PersistedBuilt.rates
  /\ high_school_rates = PersistedBuilt.high
  /\ calculated_results = <<>>
  /\ message = MsgNone

LedgerCalculateStep ==
  \E a \in LedgerArgs :
    /\ calculate_student_counts(a[1], a[2], a[3], a[4], a[5], a[6])
    /\ Len(calculated_results') <= MaxLedger

NextLedger == LedgerCalculateStep \/ DeleteStep

SpecLedger == InitLedger /\ [][NextLedger]_vars

---------------------------------------------------------------------------
(* Properties of the estimate *)

ArgPath(a) == <<a[2], a[3], a[4], a[5]>>
ArgComplete(a) == a[1] # <<>> /\ a[2] # <<>> /\ a[3] # "" /\ a[4] # "" /\ a[5] # ""
ArgOutcome(a) == CalcOutcome(a[1], a[2], a[3], a[4], a[5], a[6])
LeafAt(table, p) == table[p[1]][p[2]][p[3]][p[4]]

\* x is n/d rounded to the nearest integer, a tie going to the even one
IsNearestEven(x, n, d) ==
  /\ 2 * (x * d - n) <= d
  /\ 2 * (n - x * d) <= d
  /\ (2 * (x * d - n) = d \/ 2 * (n - x * d) = d) => x % 2 = 0

\* the estimate meets none of the four rejections
ArgAccepted(a) ==
  /\ ArgComplete(a) /\ a[6] > 0
  /\ ArgPath(a) \in Leaves(rates) /\ ArgPath(a) \in Leaves(high_school_rates)

\* C1: an estimate that is rejected (incomplete selection, units <= 0, no rate
\* entry or no high-school entry at the path) leaves rates, high_school_rates and
\* calculated_results as they were; a complete estimate with units > 0 against a
\* path absent from rates is answered "no yield rate" and appends nothing.
C1_RejectedEstimateKeepsState ==
  \A a \in CalcArgs :
    ~ArgAccepted(a) =>
      LET o == ArgOutcome(a)
      IN  /\ o.rates = rates
          /\ o.high_school_rates = high_school_rates
          /\ o.calculated_results = calculated_results
          /\ (ArgComplete(a) /\ a[6] > 0 /\ ArgPath(a) \notin Leaves(rates))
               => o.message = MsgNoRate

\* a "no yield rate" rejection was given while a result was already recorded
C1_Witness ==
  /\ message = MsgNoRate
  /\ calculated_results # <<>>
  /\ rates # EmptyDict

\* C2: the four preconditions are checked in order and the first that fails is
\* reported with its own reason: incomplete selection, then units <= 0, then no
\* rate entry, then no high-school entry; a result is appended only when none
\* of the four applies.
C2_RejectionOrder ==
  \A a \in CalcArgs :
    LET o == ArgOutcome(a)
    IN  /\ ~ArgComplete(a) => o.message = MsgSelectAll
        /\ (ArgComplete(a) /\ a[6] <= 0) => o.message = MsgUnits
        /\ (ArgComplete(a) /\ a[6] > 0 /\ ArgPath(a) \notin Leaves(rates))
             => o.message = MsgNoRate
        /\ (/\ ArgComplete(a) /\ a[6] > 0 /\ ArgPath(a) \in Leaves(rates)
            /\ ArgPath(a) \notin Leaves(high_school_rates))
             => o.message = MsgNoHigh
        /\ o.calculated_results # calculated_results => ArgAccepted(a)
        /\ Cardinality({MsgSelectAll, MsgUnits, MsgNoRate, MsgNoHigh, MsgCalcOk}) = 5

\* a rate entry without a high-school entry was reported as such
C2_Witness ==
  /\ message = MsgNoHigh
  /\ \E p \in Leaves(rates) : p \notin Leaves(high_school_rates)

\* the leaf of the example: 12.50 %, 6.00 %, 0.80 persons, 15.00 %
ExampleLeaf(p) ==
  /\ p \in Leaves(rates) /\ p \in Leaves(high_school_rates)
  /\ LeafAt(rates, p) = [elem |-> Num(1250), mid |-> Num(600)]
  /\ LeafAt(high_school_rates, p) = [personnel |-> Num(80), rate |-> Num(1500)]

\* the counts recorded by the estimate a, which is accepted
Recorded(a) ==
  LET o == ArgOutcome(a)
      r == o.calculated_results[Len(o.calculated_results)]
  IN  IF Len(o.calculated_results) = Len(calculated_results) + 1
      THEN <<r.elementary, r.kindergarten, r.middle, r.high>>
      ELSE <<>>

\* C3 as stated: with the example leaf and units = 100 the estimate records
\* elementary 13, kindergarten 6, middle 6, high 12.
C3_ExampleAsStated ==
  [][Len(calculated_results') = Len(calculated_results) + 1 =>
       LET r == calculated_results'[Len(calculated_results')]
       IN  (r.units = 100 /\ ExampleLeaf(<<r.region, r.housing_type, r.supply_type, r.scale>>))
             => <<r.elementary, r.kindergarten, r.middle, r.high>> = <<13, 6, 6, 12>>]_vars

\* C3 (amended): with the example leaf and units = 100 the estimate records
\* elementary 12, kindergarten 6, middle 6, high 12; in every accepted estimate
\* over numeric rates each count is the stated quotient rounded to the nearest
\* integer with a tie going to the even integer, the kindergarten count being
\* taken from the rounded elementary count.
C3_Example ==
  \A a \in CalcArgs :
    (ArgAccepted(a) /\ ~RatesRaise(LeafAt(rates, ArgPath(a)), LeafAt(high_school_rates, ArgPath(a))))
      => LET c == Recorded(a)
             d == LeafAt(rates, ArgPath(a))
             hd == LeafAt(high_school_rates, ArgPath(a))
         IN  /\ c # <<>>
             /\ IsNearestEven(c[1], a[6] * d.elem.v, 10000)
             /\ IsNearestEven(c[2], c[1], 2)
             /\ IsNearestEven(c[3], a[6] * d.mid.v, 10000)
             /\ IsNearestEven(c[4], a[6] * hd.personnel.v * hd.rate.v, 1000000)
             /\ (a[6] = 100 /\ ExampleLeaf(ArgPath(a))) => c = <<12, 6, 6, 12>>

\* the example was estimated: 100 units against the example leaf
C3_Witness ==
  \E i \in DOMAIN calculated_results :
    LET r == calculated_results[i]
    IN  /\ r.units = 100
        /\ ExampleLeaf(<<r.region, r.housing_type, r.supply_type, r.scale>>)
        /\ <<r.elementary, r.kindergarten, r.middle, r.high>> = <<12, 6, 6, 12>>

\* C9: every recorded result has units >= 1 and kindergarten, elementary,
\* middle and high counts that are integers >= 0 (no imported rate is negative).
C9_ResultsNonNegative ==
  \A i \in DOMAIN calculated_results :
    LET r == calculated_results[i]
    IN  /\ r.units \in Nat /\ r.units >= 1
        /\ r.kindergarten \in Nat /\ r.elementary \in Nat
        /\ r.middle \in Nat /\ r.high \in Nat

\* a result with a positive count is recorded after an import
C9_Witness ==
  /\ calculated_results # <<>>
  /\ calculated_results[1].elementary > 0
  /\ calculated_results[1].high > 0

---------------------------------------------------------------------------
(* Properties of the import and the export *)

RowPath(row) ==
  <<Join(row["city"], row["region"]), row["housing_type"], row["supply_type"], row["scale"]>>

\* float() accepts the cell
Convertible(cell) == cell.kind \in {"num", "nan"}

\* the row gives both high-school values
GivesHigh(row) ==
  /\ "high_personnel" \in DOMAIN row /\ "high_rate" \in DOMAIN row
  /\ row["high_personnel"].kind \notin {"nan", "empty"}
  /\ row["high_rate"].kind \notin {"nan", "empty"}

\* every row of the table can be processed
RowsProcessable(file) ==
  \A i \in DOMAIN file.rows :
    /\ Convertible(file.rows[i]["elementary"]) /\ Convertible(file.rows[i]["middle"])
    /\ GivesHigh(file.rows[i]) =>
         (Convertible(file.rows[i]["high_personnel"]) /\ Convertible(file.rows[i]["high_rate"]))

\* the import of the table is expected to succeed: it can be read, has all nine
\* columns and every row can be processed
FileSucceeds(file) == file.readable /\ AllCols \subseteq file.columns /\ RowsProcessable(file)

\* the last row of the table at path p
LastRowAt(file, p) ==
  file.rows[CHOOSE i \in DOMAIN file.rows :
              /\ RowPath(file.rows[i]) = p
              /\ \A j \in DOMAIN file.rows : RowPath(file.rows[j]) = p => j <= i]

\* the paths the selection cascade offers
Offered ==
  UNION { UNION { UNION { UNION { { <<r, h, s, sc>> : sc \in get_scales(r, h, s) }
                                  : s \in get_subtypes(r, h) }
                          : h \in get_types(r) }
                  : r \in get_regions(c) }
          : c \in get_cities }

\* C4: a successful import replaces both tables: afterwards the leaves of rates
\* are exactly the paths of the imported rows (each holding its last row's rates
\* rounded to 2 decimals), the leaves of high_school_rates are exactly the paths
\* of the rows that give both high-school values, no other path of the earlier
\* tables can be looked up, and the selection cascade offers the leaves of rates
\* and nothing else.
C4_ImportReplaces ==
  /\ Offered = Leaves(rates)
  /\ \A file \in Files :
       FileSucceeds(file) =>
         LET o == ExcelOutcome(file)
             paths == { RowPath(file.rows[i]) : i \in DOMAIN file.rows }
             highPaths == { RowPath(file.rows[i]) :
                            i \in { j \in DOMAIN file.rows : GivesHigh(file.rows[j]) } }
         IN  /\ Leaves(o.rates) = paths
             /\ Leaves(o.high_school_rates) = highPaths
             /\ \A p \in paths :
                  LeafAt(o.rates, p) = [elem |-> Round2(LastRowAt(file, p)["elementary"]),
                                        mid |-> Round2(LastRowAt(file, p)["middle"])]
             /\ \A p \in (Leaves(rates) \cup Leaves(high_school_rates)) \ paths :
                  /\ get_node(o.rates, p[1], p[2], p[3], p[4]) = EmptyDict
                  /\ get_node(o.high_school_rates, p[1], p[2], p[3], p[4]) = EmptyDict

\* a table was imported that lacks the path of a result estimated before it
C4_Witness ==
  /\ message.text = "combinations saved"
  /\ calculated_results # <<>>
  /\ rates # EmptyDict
  /\ LET r == calculated_results[1]
     IN  <<r.region, r.housing_type, r.supply_type, r.scale>> \notin Leaves(rates)

\* C5: an import that fails (the file cannot be read, a required column is
\* missing, or a row cannot be processed) reports an error and leaves rates and
\* high_school_rates exactly as they were.
C5_FailedImportKeepsTables ==
  \A file \in Files :
    ~FileSucceeds(file) =>
      LET o == ExcelOutcome(file)
      IN  /\ o.rates = rates
          /\ o.high_school_rates = high_school_rates
          /\ o.message.level = "error"

\* an import failed while tables were loaded
C5_Witness ==
  /\ message = MsgExcelFail
  /\ rates # EmptyDict
  /\ high_school_rates # EmptyDict

\* the outcome o of importing the readable table file is a header rejection
\* exactly when the table lacks one of cols; with all of cols present and
\* processable rows the import succeeds, every row is in rates and only rows
\* giving both high-school values are in high_school_rates
HighOptional(cols, file, o) ==
  /\ o.message.text = "required columns missing" <=> ~(cols \subseteq file.columns)
  /\ (cols \subseteq file.columns /\ RowsProcessable(file)) =>
       /\ o.message = MsgImportOk(Len(file.rows))
       /\ Leaves(o.rates) = { RowPath(file.rows[i]) : i \in DOMAIN file.rows }
       /\ Leaves(o.high_school_rates) =
            { RowPath(file.rows[i]) : i \in { j \in DOMAIN file.rows : GivesHigh(file.rows[j]) } }

\* the session as a record
Session(r, h, c, m) ==
  [rates |-> r, high_school_rates |-> h, calculated_results |-> c, message |-> m]

\* C6 as stated: a table with the seven columns city, region, housing_type,
\* supply_type, scale, elementary, middle is imported whether the high-school
\* fields are blank on a row or absent from the table; only a missing one of the
\* seven is a structural rejection.
C6_SevenRequired ==
  [][\A file \in Files :
       (file.readable /\ process_excel(file)) =>
         HighOptional(KeyCols \cup RateCols, file,
                      Session(rates', high_school_rates', calculated_results', message'))]_vars

\* C6 (amended): all nine columns must be in the header, the two high-school
\* columns included; with the nine present a row whose high-school fields are
\* blank is imported into rates and creates no high_school_rates entry; the
\* structural rejection occurs exactly when one of the nine columns is missing.
C6_NineRequired ==
  \A file \in Files :
    file.readable => HighOptional(KeyCols \cup RateCols \cup HighCols, file, ExcelOutcome(file))

\* a table was imported whose row left its path without a high-school entry
C6_Witness ==
  /\ message.text = "combinations saved"
  /\ message.n >= 1
  /\ \E p \in Leaves(rates) : p \notin Leaves(high_school_rates)

\* the number a formatted rate stands for, in hundredths
Hundredths(text) == ParseInt(WithoutChar(text, "."), 0)

\* the rows have numeric rates and pairwise distinct key paths
WellFormed(file) ==
  /\ FileSucceeds(file)
  /\ \A i \in DOMAIN file.rows :
       file.rows[i]["elementary"].kind = "num" /\ file.rows[i]["middle"].kind = "num"
  /\ \A i, j \in DOMAIN file.rows :
       i # j => [c \in KeyCols |-> file.rows[i][c]] # [c \in KeyCols |-> file.rows[j][c]]

\* C7: import then export round-trips the leaves: the view holds exactly one row
\* for each imported row, whose city and region recompose to the original region
\* key, whose housing_type, supply_type and scale are the original ones and whose
\* rates are the original rates rounded to 2 decimals, for every city and
\* district text.
C7_RoundTrip ==
  [][\A file \in Files :
       (WellFormed(file) /\ process_excel(file)) =>
         LET data == RateData(rates', high_school_rates')
         IN  /\ DOMAIN data = { RowPath(file.rows[i]) : i \in DOMAIN file.rows }
             /\ Cardinality(DOMAIN data) = Len(file.rows)
             /\ \A i \in DOMAIN file.rows :
                  LET row == file.rows[i]
                      x == data[RowPath(row)]
                  IN  /\ Join(x.city, x.region) = Join(row["city"], row["region"])
                      /\ x.housing_type = row["housing_type"]
                      /\ x.supply_type = row["supply_type"]
                      /\ x.scale = row["scale"]
                      /\ Hundredths(x.elementary) = RoundHalfEven(row["elementary"].v, 10)
                      /\ Hundredths(x.middle) = RoundHalfEven(row["middle"].v, 10)]_vars

\* C10 as stated: the structural error names exactly the columns the table lacks.
C10_NamesMissing ==
  [][\A file \in Files :
       (file.readable /\ ~(AllCols \subseteq file.columns) /\ process_excel(file)) =>
         message'.cols = AllCols \ file.columns]_vars

\* C10 (amended): the structural error is one fixed report that lists all nine
\* required columns whichever of them the table lacks, so two tables that lack
\* different columns get the same report.
C10_FixedReport ==
  \A f1, f2 \in { f \in Files : f.readable /\ ~(AllCols \subseteq f.columns) } :
    /\ ExcelOutcome(f1).message = ExcelOutcome(f2).message
    /\ ExcelOutcome(f1).message.level = "error"
    /\ ExcelOutcome(f1).message.cols = AllCols

\* a table was rejected for its header
C10_Witness ==
  /\ message.text = "required columns missing"
  /\ message.level = "error"

---------------------------------------------------------------------------
(* Properties of the result ledger *)

\* the j-th smallest member of the set kept
Nth(kept, j) == CHOOSE i \in kept : Cardinality({ x \in kept : x < i }) = j - 1

\* C8: deleting the set sel of 0-based positions of the current ledger leaves the
\* entries whose position is not in sel, in their order, and so as many entries
\* less as sel has members.
C8_PositionalRemoval ==
  LET n == Len(calculated_results)
  IN  \A sel \in SUBSET (0..(n - 1)) :
        LET o == DeleteOutcome({ Option(i) : i \in sel })
            kept == (0..(n - 1)) \ sel
        IN  /\ Len(o.calculated_results) = n - Cardinality(sel)
            /\ \A j \in 1..Len(o.calculated_results) :
                 o.calculated_results[j] = calculated_results[Nth(kept, j) + 1]
            /\ o.rates = rates /\ o.high_school_rates = high_school_rates

\* three results are left after a deletion, the middle one unlike its neighbours
C8_Witness ==
  /\ message = MsgDeleted
  /\ Len(calculated_results) = 3
  /\ calculated_results[1].units = 1
  /\ calculated_results[2].units = 2
  /\ calculated_results[3].units = 1

====
